---- MODULE Spec2Model ----
(***************************************************************************)
(* The /chat endpoint of src/main.py: the tool-calling orchestration loop, *)
(* the brewery / restaurant aggregators it dispatches to, and the          *)
(* process-wide session dictionary.                                        *)
(*                                                                         *)
(* The handler is an asyncio coroutine: between two awaits it runs alone   *)
(* on the event loop.  `loop` names the run that currently holds the event *)
(* loop (NoRun when every coroutine is suspended at an await); a run can   *)
(* take a step only when the loop is free or its own.                      *)
(*                                                                         *)
(* Python values: None is the string "None" (NoneName where a name is      *)
(* expected), a dict is a function whose DOMAIN is its key set, a str that *)
(* the code inspects (a brewery name, a name filter) is a sequence of      *)
(* one-character strings.                                                  *)
(*                                                                         *)
(* Three specifications: Spec is the chat loop with two concurrent runs;   *)
(* SpecScrape is one get_taplist_summary call, await by await; SpecLookup  *)
(* is one handler call made by the loop, over catalogs and places          *)
(* responses longer than the result limit.                                 *)
(***************************************************************************)
EXTENDS Integers, Sequences, FiniteSets, TLC

VARIABLES
    cville_breweries,   \* contents of cville_breweries.json (<<>>: no file)
    session_storage,    \* main.py:341, session id -> session dict
    loop,               \* the run executing on the event loop, or NoRun
    requested,          \* tool calls the model has requested so far (all runs)
    pc,                 \* per run: position of the chat coroutine
    request,            \* per run: the ChatRequest plus the caller's conversation
    session_id,         \* per run: local session_id (main.py:351)
    messages,           \* per run: local messages (main.py:371)
    response_message,   \* per run: local response_message (main.py:383, 436)
    idx,                \* per run: position of the for loop at main.py:391
    completions,        \* per run: completion requests issued
    rounds,             \* per run: iterations of the while loop at main.py:386
    executed,           \* per run: tool handlers invoked
    reply,              \* per run: the reply returned (main.py:441)
    fault,              \* per run: the exception that ended the run
    writer,             \* history: session id -> conversation whose run wrote last_brewery
    scrape,             \* the frame of one get_taplist_summary call (main.py:158-225)
    lookup              \* one call of a handler made at main.py:396-405, and its outcome

vars == <<cville_breweries, session_storage, loop, requested, pc, request,
          session_id, messages, response_message, idx, completions, rounds,
          executed, reply, fault, writer, scrape, lookup>>

\* ---------------------------------------------------------------- bounds

\* Tool calls the model may request over one behaviour, all runs together.
MaxToolCalls == 2
\* Tool calls the model may put into one completion.
MaxCalls == 2
\* The chat requests in flight: two clients.
Runs == {"r1", "r2"}
NoRun == "none"

\* ---------------------------------------------------------- Python values

None == "None"
NoneName == <<"None">>
EmptyDict == [k \in {} |-> None]

\* Mutant: only None is falsy (`is None` in place of truthiness).
Truthy_NotNone(s) == s # None

Truthy(s) == s # None /\ s # ""
TruthyName(s) == s # NoneName /\ s # <<>>

Get(d, k, default) == IF k \in DOMAIN d THEN d[k] ELSE default

LowerChar(c) ==
    CASE c = "C" -> "c"
      [] c = "S" -> "s"
      [] c = "T" -> "t"
      [] c = "G" -> "g"
      [] OTHER -> c

\* str.lower()
Lower(s) == [i \in 1..Len(s) |-> LowerChar(s[i])]

\* needle in hay, for two str
Contains(needle, hay) ==
    \E i \in 0..(Len(hay) - Len(needle)) :
        SubSeq(hay, i + 1, i + Len(needle)) = needle

\* Mutant: the slice keeps the whole list.
Take_Whole(s, n) == s

\* s[:n]
Take(s, n) == IF Len(s) <= n THEN s ELSE SubSeq(s, 1, n)

\* ------------------------------------------------------------ outcomes

\* What a call produces: a returned value, or a raised exception and its line.
Return(v) == [exc |-> "none", line |-> 0, value |-> v]
Raise(e, l) == [exc |-> e, line |-> l]

\* -------------------------------------------------------- local catalog

\* Three records of cville_breweries.json: name and, optionally, taplist_url.
ThreeNotchd == [name |-> <<"T", "h">>]
StarrHill == [name |-> <<"S", "h">>, taplist_url |-> "https://starrhill/beer"]
Champion == [name |-> <<"C", "h">>, taplist_url |-> "https://champion/taps"]

\* load_cville_breweries: the file's list, [] when the file is missing.
CatalogFiles == {<<>>, <<ThreeNotchd, StarrHill, Champion>>}

load_cville_breweries(file) == file

\* ---------------------------------------------------------- geo utility

NoLocation == <<>>
UserLocations == {<<38, -78>>}
CvilleCenter == <<38, -78>>

Abs(x) == IF x < 0 THEN -x ELSE x

\* Great-circle distance in miles; the model keeps a grid metric in its place
\* (zero on equal points, symmetric), which is all the ranking reads.
haversine_distance(lat1, lon1, lat2, lon2) == Abs(lat2 - lat1) + Abs(lon2 - lon1)

\* d[k] = v on a dict
Put(d, k, v) == [x \in DOMAIN d \cup {k} |-> IF x = k THEN v ELSE d[x]]

DistanceKey(b) == IF "distance" \in DOMAIN b THEN b.distance ELSE 999

RECURSIVE InsertByDistance(_, _)
InsertByDistance(b, sorted) ==
    IF sorted = <<>> THEN <<b>>
    ELSE IF DistanceKey(sorted[Len(sorted)]) <= DistanceKey(b)
         THEN Append(sorted, b)
         ELSE Append(InsertByDistance(b, SubSeq(sorted, 1, Len(sorted) - 1)),
                     sorted[Len(sorted)])

\* list.sort(key=distance): stable, ascending
RECURSIVE SortByDistance(_)
SortByDistance(s) ==
    IF s = <<>> THEN <<>>
    ELSE InsertByDistance(s[Len(s)], SortByDistance(SubSeq(s, 1, Len(s) - 1)))

\* ------------------------------------------------------ places connector

GooglePlace == [name |-> <<"G", "b">>, place_id |-> "p1", source |-> "google_places"]
NamelessPlace == [name |-> NoneName, place_id |-> "p2", source |-> "google_places"]

\* What get_google_places_breweries can return: [] (no API key, a status other
\* than OK, an exception of the HTTP exchange) or the places of the response,
\* whose name is None when the response carries none.
get_google_places_breweries == {<<>>, <<GooglePlace>>, <<NamelessPlace>>}

GoogleRestaurant(meal) ==
    [name |-> "Bodo's", place_id |-> "p3",
     meal |-> IF Truthy(meal) THEN meal ELSE "general", source |-> "google_places"]

\* What get_google_places_restaurants can return.
get_google_places_restaurants(meal) == {<<>>, <<GoogleRestaurant(meal)>>}

\* ------------------------------------------------------- data aggregator

ResultLimit == 15

NameMatches(name, b) == Contains(Lower(name), Lower(b.name))

\* Mutant: the list is cut to the limit first and filtered by name after.
get_breweries_TruncatesFirst(name, location, file, google_breweries) ==
    LET local_breweries == load_cville_breweries(file)
        with_distance ==
            [i \in 1..Len(local_breweries) |->
                Put(local_breweries[i], "distance",
                    haversine_distance(location[1], location[2],
                                       CvilleCenter[1], CvilleCenter[2]))]
        all_breweries ==
            IF location # NoLocation
            THEN SortByDistance(with_distance) \o google_breweries
            ELSE local_breweries
    IN  IF TruthyName(name)
        THEN IF \E i \in 1..Len(all_breweries) : all_breweries[i].name = NoneName
             THEN Raise("AttributeError", 256)
             ELSE Return(SelectSeq(Take(all_breweries, ResultLimit),
                                   LAMBDA b : NameMatches(name, b)))
        ELSE Return(Take(all_breweries, ResultLimit))

\* main.py:228-258.  `google_breweries` is what the places connector returned
\* (read only when a location is given).
get_breweries(name, location, file, google_breweries) ==
    LET local_breweries == load_cville_breweries(file)
        with_distance ==
            [i \in 1..Len(local_breweries) |->
                Put(local_breweries[i], "distance",
                    haversine_distance(location[1], location[2],
                                       CvilleCenter[1], CvilleCenter[2]))]
        all_breweries ==
            IF location # NoLocation
            THEN SortByDistance(with_distance) \o google_breweries
            ELSE local_breweries
    IN  IF TruthyName(name)
        THEN IF \E i \in 1..Len(all_breweries) : all_breweries[i].name = NoneName
             THEN Raise("AttributeError", 256)
             ELSE Return(Take(SelectSeq(all_breweries,
                                        LAMBDA b : NameMatches(name, b)),
                              ResultLimit))
        ELSE Return(Take(all_breweries, ResultLimit))

NoLocationProvided(meal) ==
    [name |-> "No location provided",
     meal |-> IF Truthy(meal) THEN meal ELSE "general", source |-> "error"]

\* main.py:260-281
get_restaurants(meal, location, google_restaurants) ==
    IF location # NoLocation
    THEN Return(Take([i \in 1..Len(google_restaurants) |->
                         Put(google_restaurants[i], "distance", "0.5")],
                     ResultLimit))
    ELSE Return(<<NoLocationProvided(meal)>>)

\* main.py:158-225: the result dict of a successful extraction, the result
\* dict of a failure caught at line 217, or an exception raised while the
\* playwright driver starts (line 162, outside the try).
get_taplist_summary(brewery, url) ==
    { Return([brewery |-> brewery, summary |-> "on tap", url |-> url,
              status |-> "success"]),
      Return([brewery |-> brewery, summary |-> "unable to fetch", url |-> url,
              status |-> "error", error |-> "Timeout"]),
      Raise("PlaywrightError", 162) }

\* -------------------------------------------------------- tool registry

\* main.py:284-288
available_functions == {"get_breweries", "get_taplist_summary", "get_restaurants"}

\* inspect.iscoroutinefunction (main.py:402): get_taplist_summary is async def
IsCoroutineFunction(function_name) == function_name = "get_taplist_summary"

\* The keyword parameters of each handler (main.py:158, 228, 260).
Parameters(function_name) ==
    CASE function_name = "get_breweries" -> {"name", "location"}
      [] function_name = "get_restaurants" -> {"meal", "location"}
      [] function_name = "get_taplist_summary" -> {"brewery", "url"}

RequiredParameters(function_name) ==
    IF function_name = "get_taplist_summary" THEN {"brewery", "url"} ELSE {}

\* function_to_call(**function_args) binds: no unexpected keyword, none missing
Binds(function_name, function_args) ==
    /\ DOMAIN function_args \subseteq Parameters(function_name)
    /\ RequiredParameters(function_name) \subseteq DOMAIN function_args

\* Mutant: a location the model sent is kept (setdefault in place of an
\* assignment).
InjectLocation_KeepsModelValue(function_name, function_args, user_location) ==
    IF user_location # NoLocation
       /\ function_name \in {"get_breweries", "get_restaurants"}
       /\ "location" \notin DOMAIN function_args
    THEN Put(function_args, "location", user_location)
    ELSE function_args

\* main.py:398-399
InjectLocation(function_name, function_args, user_location) ==
    IF user_location # NoLocation
       /\ function_name \in {"get_breweries", "get_restaurants"}
    THEN Put(function_args, "location", user_location)
    ELSE function_args

\* The outcomes of a synchronous handler called at main.py:405.
SyncOutcomes(function_name, function_args, file) ==
    CASE function_name = "get_breweries" ->
            { get_breweries(Get(function_args, "name", NoneName),
                            Get(function_args, "location", NoLocation), file, g) :
                g \in get_google_places_breweries }
      [] function_name = "get_restaurants" ->
            { get_restaurants(Get(function_args, "meal", None),
                              Get(function_args, "location", NoLocation), g) :
                g \in get_google_places_restaurants(Get(function_args, "meal", None)) }

\* ------------------------------------------------------------ the model

\* What the completion interface may ask for: a tool name and its arguments
\* (arguments that json.loads at main.py:393 parses to a dict).
ToolMenu == <<
    [name |-> "get_breweries", arguments |-> EmptyDict],
    [name |-> "get_breweries", arguments |-> [name |-> <<"s">>]],
    [name |-> "get_breweries", arguments |-> [name |-> <<"C">>]],
    [name |-> "get_restaurants", arguments |-> [meal |-> "lunch"]],
    [name |-> "get_restaurants", arguments |-> [cuisine |-> "thai"]],
    [name |-> "get_taplist_summary",
     arguments |-> [brewery |-> <<"S", "h">>, url |-> "https://starrhill/beer"]],
    [name |-> "get_weather", arguments |-> EmptyDict] >>

CallIds == <<"call_a", "call_b", "call_c", "call_d">>

\* The tool_calls of one completion: the i-th has the i-th id.
ToolCalls(picks) ==
    [i \in 1..Len(picks) |->
        [id |-> CallIds[i], name |-> ToolMenu[picks[i]].name,
         arguments |-> ToolMenu[picks[i]].arguments]]

Contents == {"Cheers!", "Try Starr Hill."}

\* ------------------------------------------------------------- requests

UserMessages == {"", "What breweries are near me?"}
Conversations == {"A", "B"}

NoRequest == [message |-> None, location |-> NoLocation, conversation_id |-> None]
NoResponse == [content |-> None, tool_calls |-> <<>>]
NoFault == Raise("none", 0)
\* No get_taplist_summary frame, no handler call under observation.
NoScrape == [pc |-> "none"]
NoLookup == [pc |-> "none"]

\* -------------------------------------------------------- session store

\* main.py:350-351: the session id does not depend on the request
SessionId(req) == "default_user"

SessionIds == {"default_user"}

\* Mutant: every request starts its session afresh.
EnsureSession_Reset(store, sid) == Put(store, sid, EmptyDict)

\* main.py:352-353
EnsureSession(store, sid) ==
    IF sid \notin DOMAIN store THEN Put(store, sid, EmptyDict) ELSE store

\* main.py:410 and 413: the result that makes the loop store a last brewery
Qualifies(function_name, function_response) ==
    /\ function_name = "get_breweries"
    /\ function_response # <<>>
    /\ "taplist_url" \in DOMAIN function_response[1]
    /\ Truthy(function_response[1].taplist_url)

\* Mutant: the name is written at once, the url of an entry that is already
\* there is left for later.
StoreLastBrewery_NameFirst(session, function_name, function_response) ==
    IF Qualifies(function_name, function_response)
    THEN Put(session, "last_brewery",
             [name |-> function_response[1].name,
              url |-> IF "last_brewery" \in DOMAIN session
                      THEN session.last_brewery.url
                      ELSE function_response[1].taplist_url])
    ELSE session

\* Mutant: a last brewery, once stored, is kept.
StoreLastBrewery_KeepsFirst(session, function_name, function_response) ==
    IF Qualifies(function_name, function_response)
       /\ "last_brewery" \notin DOMAIN session
    THEN Put(session, "last_brewery",
             [name |-> function_response[1].name,
              url |-> function_response[1].taplist_url])
    ELSE session

\* main.py:409-418
StoreLastBrewery(session, function_name, function_response) ==
    IF Qualifies(function_name, function_response)
    THEN LET relevant_brewery == function_response[1]
         IN  Put(session, "last_brewery",
                 [name |-> relevant_brewery.name,
                  url |-> relevant_brewery.taplist_url])
    ELSE session

\* ------------------------------------------------------------ the turns

\* main.py:361-369: the two interpolated parts of the system prompt; an empty
\* part is the empty str
LocationContext(user_location) == user_location

\* Mutant: the prompt is built without the session part.
SessionContext_Dropped(session) == <<>>

SessionContext(session) ==
    IF "last_brewery" \in DOMAIN session THEN session.last_brewery.name ELSE <<>>

\* main.py:371-374
InitialMessages(user_msg, user_location, session) ==
    << [role |-> "system",
        location_context |-> LocationContext(user_location),
        session_context |-> SessionContext(session)],
       [role |-> "user", content |-> user_msg] >>

\* json.dumps(function_response)
JsonDumps(v) == [json |-> v]

\* Mutant: the turn is labelled with the function's name, not the call's id.
ToolMessage_IdFromName(tool_call, function_name, function_response) ==
    [tool_call_id |-> function_name, role |-> "tool", name |-> function_name,
     content |-> JsonDumps(function_response)]

\* main.py:420-427
ToolMessage(tool_call, function_name, function_response) ==
    [tool_call_id |-> tool_call.id, role |-> "tool", name |-> function_name,
     content |-> JsonDumps(function_response)]

\* Mutant: the reply is a canned text when the completion has no tool calls.
Reply_Canned(message) ==
    IF message.tool_calls = <<>> THEN "Sorry, try again." ELSE message.content

\* main.py:438-441
Reply(message) == message.content

\* ------------------------------------------------------------- actions

Init ==
    /\ cville_breweries \in CatalogFiles
    /\ session_storage = [k \in {} |-> EmptyDict]
    /\ loop = NoRun
    /\ requested = 0
    /\ pc = [r \in Runs |-> "idle"]
    /\ request = [r \in Runs |-> NoRequest]
    /\ session_id = [r \in Runs |-> None]
    /\ messages = [r \in Runs |-> <<>>]
    /\ response_message = [r \in Runs |-> NoResponse]
    /\ idx = [r \in Runs |-> 0]
    /\ completions = [r \in Runs |-> 0]
    /\ rounds = [r \in Runs |-> 0]
    /\ executed = [r \in Runs |-> 0]
    /\ reply = [r \in Runs |-> None]
    /\ fault = [r \in Runs |-> NoFault]
    /\ writer = [k \in SessionIds |-> None]
    /\ scrape = NoScrape
    /\ lookup = NoLookup

\* The coroutine of run r has returned or raised: its frame (the request, the
\* locals, the counts kept of it) is gone.  What stays is the HTTP response
\* (reply or fault) and, as history, the last completion received.
Released(r) ==
    /\ request' = [request EXCEPT ![r] = NoRequest]
    /\ session_id' = [session_id EXCEPT ![r] = None]
    /\ messages' = [messages EXCEPT ![r] = <<>>]
    /\ idx' = [idx EXCEPT ![r] = 0]
    /\ completions' = [completions EXCEPT ![r] = 0]
    /\ rounds' = [rounds EXCEPT ![r] = 0]
    /\ executed' = [executed EXCEPT ![r] = 0]

\* The run ends with exception e; the event loop is free again.
Aborts(r, e) ==
    /\ pc' = [pc EXCEPT ![r] = "FAILED"]
    /\ fault' = [fault EXCEPT ![r] = e]
    /\ response_message' = [response_message EXCEPT ![r] = NoResponse]
    /\ loop' = NoRun
    /\ Released(r)

\* A body without `message`: ChatRequest (main.py:39-41) rejects it and the
\* handler never runs.
ChatRejected(r) ==
    /\ pc[r] = "idle"
    /\ loop = NoRun
    /\ Aborts(r, Raise("RequestValidationError", 40))
    /\ UNCHANGED <<scrape, lookup>>
    /\ UNCHANGED <<cville_breweries, session_storage, requested, reply, writer>>

\* main.py:345-382: from the call of the handler to its first await.
Chat(r) ==
    /\ pc[r] = "idle"
    /\ loop = NoRun
    /\ \E user_msg \in UserMessages,
          user_location \in {NoLocation} \cup UserLocations,
          conversation \in Conversations :
        LET req == [message |-> user_msg, location |-> user_location,
                    conversation_id |-> conversation]
            sid == SessionId(req)
            store == EnsureSession(session_storage, sid)
            session == store[sid]
        IN  /\ session_storage' = store
            /\ IF ~Truthy(user_msg)
               THEN Aborts(r, Raise("HTTPException400", 358))
               ELSE /\ request' = [request EXCEPT ![r] = req]
                    /\ session_id' = [session_id EXCEPT ![r] = sid]
                    /\ messages' = [messages EXCEPT ![r] =
                                       InitialMessages(user_msg, user_location, session)]
                    /\ completions' = [completions EXCEPT ![r] = 1]
                    /\ pc' = [pc EXCEPT ![r] = "AWAITING_MODEL"]
                    /\ UNCHANGED <<fault, response_message, loop, idx, rounds,
                                   executed>>
    /\ UNCHANGED <<scrape, lookup>>
    /\ UNCHANGED <<cville_breweries, requested, reply, writer>>

\* main.py:377 and 430: the completion request raises.
CompletionFails(r) ==
    /\ pc[r] = "AWAITING_MODEL"
    /\ loop = NoRun
    /\ Aborts(r, Raise("APIError", IF completions[r] = 1 THEN 377 ELSE 430))
    /\ UNCHANGED <<scrape, lookup>>
    /\ UNCHANGED <<cville_breweries, session_storage, requested, reply, writer>>

\* main.py:383-386 (or 436, 386) and 438-441: a completion without tool calls.
CompletionReplies(r) ==
    /\ pc[r] = "AWAITING_MODEL"
    /\ loop = NoRun
    /\ \E content \in Contents :
        LET message == [content |-> content, tool_calls |-> <<>>]
        IN  /\ response_message' = [response_message EXCEPT ![r] = message]
            /\ reply' = [reply EXCEPT ![r] = Reply(message)]
    /\ pc' = [pc EXCEPT ![r] = "DONE"]
    /\ Released(r)
    /\ UNCHANGED <<scrape, lookup>>
    /\ UNCHANGED <<cville_breweries, session_storage, loop, requested, fault,
                   writer>>

\* main.py:383-389 (or 436, 386-389): a completion with tool calls.
CompletionCallsTools(r) ==
    /\ pc[r] = "AWAITING_MODEL"
    /\ loop = NoRun
    /\ \E n \in 1..MaxCalls :
        /\ requested + n <= MaxToolCalls
        /\ \E picks \in [1..n -> 1..Len(ToolMenu)] :
            LET message == [content |-> None, tool_calls |-> ToolCalls(picks)]
            IN  /\ response_message' = [response_message EXCEPT ![r] = message]
                /\ messages' = [messages EXCEPT ![r] =
                       Append(@, [role |-> "assistant", content |-> message.content,
                                  tool_calls |-> message.tool_calls])]
        /\ requested' = requested + n
    /\ rounds' = [rounds EXCEPT ![r] = @ + 1]
    /\ idx' = [idx EXCEPT ![r] = 1]
    /\ pc' = [pc EXCEPT ![r] = "EXECUTING_TOOLS"]
    /\ loop' = r
    /\ UNCHANGED <<scrape, lookup>>
    /\ UNCHANGED <<cville_breweries, session_storage, request, session_id,
                   completions, executed, reply, fault, writer>>

\* main.py:407-427: the handler returned function_response.
Finishes(r, tool_call, function_response) ==
    LET sid == session_id[r]
    IN  /\ session_storage' = [session_storage EXCEPT ![sid] =
               StoreLastBrewery(@, tool_call.name, function_response)]
        /\ writer' = IF Qualifies(tool_call.name, function_response)
                     THEN [writer EXCEPT ![sid] = request[r].conversation_id]
                     ELSE writer
        /\ messages' = [messages EXCEPT ![r] =
               Append(@, ToolMessage(tool_call, tool_call.name, function_response))]
        /\ idx' = [idx EXCEPT ![r] = @ + 1]
        /\ pc' = [pc EXCEPT ![r] = "EXECUTING_TOOLS"]
        /\ loop' = r
        /\ UNCHANGED <<fault, response_message, request, session_id,
                       completions, rounds>>

\* main.py:236-237, 262-264: a synchronous handler given a location calls the
\* places connector, which issues requests.get (main.py:82, 134).
CallsPlaces(function_name, function_args) ==
    /\ function_name \in {"get_breweries", "get_restaurants"}
    /\ Get(function_args, "location", NoLocation) # NoLocation

\* main.py:391-405, and 407-427 for a synchronous handler that makes no places
\* search: one pass of the for loop up to the handler's await, up to the
\* handler's places search, or to the end of the body.
ExecuteToolCall(r) ==
    /\ pc[r] = "EXECUTING_TOOLS"
    /\ loop = r
    /\ idx[r] <= Len(response_message[r].tool_calls)
    /\ LET tool_call == response_message[r].tool_calls[idx[r]]
           function_name == tool_call.name
           function_args == InjectLocation(function_name, tool_call.arguments,
                                           request[r].location)
       IN  IF function_name \notin available_functions
           THEN Aborts(r, Raise("KeyError", 396))
                /\ UNCHANGED <<session_storage, writer>>
           ELSE IF ~Binds(function_name, function_args)
           THEN Aborts(r, Raise("TypeError",
                         IF IsCoroutineFunction(function_name) THEN 403 ELSE 405))
                /\ UNCHANGED <<session_storage, writer>>
           ELSE IF IsCoroutineFunction(function_name)
           THEN /\ executed' = [executed EXCEPT ![r] = @ + 1]
                /\ pc' = [pc EXCEPT ![r] = "AWAITING_TOOL"]
                /\ loop' = NoRun
                /\ UNCHANGED <<session_storage, messages, idx, fault, writer,
                               response_message, request, session_id,
                               completions, rounds>>
           ELSE IF CallsPlaces(function_name, function_args)
           THEN /\ executed' = [executed EXCEPT ![r] = @ + 1]
                /\ pc' = [pc EXCEPT ![r] = "IN_PLACES_SEARCH"]
                /\ UNCHANGED <<session_storage, messages, idx, fault, writer,
                               response_message, request, session_id,
                               completions, rounds, loop>>
           ELSE \E out \in SyncOutcomes(function_name, function_args,
                                        cville_breweries) :
                    IF out.exc # "none"
                    THEN Aborts(r, out) /\ UNCHANGED <<session_storage, writer>>
                    ELSE /\ Finishes(r, tool_call, out.value)
                         /\ executed' = [executed EXCEPT ![r] = @ + 1]
    /\ UNCHANGED <<scrape, lookup>>
    /\ UNCHANGED <<cville_breweries, requested, reply>>

\* main.py:82-101 (134-155), then 238-258 (265-272) and 407-427: requests.get
\* returns or raises, the handler finishes and the loop goes on.  requests.get
\* is a plain blocking call: the coroutine never reached an await, so the
\* event loop is still this run's.
PlacesSearchReturns(r) ==
    /\ pc[r] = "IN_PLACES_SEARCH"
    /\ loop = r
    /\ LET tool_call == response_message[r].tool_calls[idx[r]]
           function_name == tool_call.name
           function_args == InjectLocation(function_name, tool_call.arguments,
                                           request[r].location)
       IN  \E out \in SyncOutcomes(function_name, function_args,
                                   cville_breweries) :
               IF out.exc # "none"
               THEN Aborts(r, out) /\ UNCHANGED <<session_storage, writer>>
               ELSE Finishes(r, tool_call, out.value) /\ UNCHANGED executed
    /\ UNCHANGED <<scrape, lookup>>
    /\ UNCHANGED <<cville_breweries, requested, reply>>

\* main.py:403: the awaited get_taplist_summary ends, then 407-427.
ToolReturns(r) ==
    /\ pc[r] = "AWAITING_TOOL"
    /\ loop = NoRun
    /\ LET tool_call == response_message[r].tool_calls[idx[r]]
       IN  \E out \in get_taplist_summary(tool_call.arguments.brewery,
                                          tool_call.arguments.url) :
               IF out.exc # "none"
               THEN Aborts(r, out) /\ UNCHANGED <<session_storage, writer>>
               ELSE Finishes(r, tool_call, out.value) /\ UNCHANGED executed
    /\ UNCHANGED <<scrape, lookup>>
    /\ UNCHANGED <<cville_breweries, requested, reply>>

\* main.py:429-435: every tool call of the round is done; the next completion
\* request is issued.
RequestCompletion(r) ==
    /\ pc[r] = "EXECUTING_TOOLS"
    /\ loop = r
    /\ idx[r] > Len(response_message[r].tool_calls)
    /\ completions' = [completions EXCEPT ![r] = @ + 1]
    /\ pc' = [pc EXCEPT ![r] = "AWAITING_MODEL"]
    /\ loop' = NoRun
    /\ UNCHANGED <<scrape, lookup>>
    /\ UNCHANGED <<cville_breweries, session_storage, requested, request,
                   session_id, messages, response_message, idx, rounds,
                   executed, reply, fault, writer>>

Next ==
    \E r \in Runs :
        \/ ChatRejected(r)
        \/ Chat(r)
        \/ CompletionFails(r)
        \/ CompletionReplies(r)
        \/ CompletionCallsTools(r)
        \/ ExecuteToolCall(r)
        \/ PlacesSearchReturns(r)
        \/ ToolReturns(r)
        \/ RequestCompletion(r)

Spec == Init /\ [][Next]_vars

\* ------------------------------------- the tap-list extractor, step by step

\* The variables of the chat loop, which a get_taplist_summary frame or a
\* single handler call leaves alone.
chat_vars == <<cville_breweries, session_storage, loop, requested, pc, request,
               session_id, messages, response_message, idx, completions,
               rounds, executed, reply, fault, writer>>

\* The chat loop at rest.
ChatIdle ==
    /\ session_storage = [k \in {} |-> EmptyDict]
    /\ loop = NoRun
    /\ requested = 0
    /\ pc = [r \in Runs |-> "idle"]
    /\ request = [r \in Runs |-> NoRequest]
    /\ session_id = [r \in Runs |-> None]
    /\ messages = [r \in Runs |-> <<>>]
    /\ response_message = [r \in Runs |-> NoResponse]
    /\ idx = [r \in Runs |-> 0]
    /\ completions = [r \in Runs |-> 0]
    /\ rounds = [r \in Runs |-> 0]
    /\ executed = [r \in Runs |-> 0]
    /\ reply = [r \in Runs |-> None]
    /\ fault = [r \in Runs |-> NoFault]
    /\ writer = [k \in SessionIds |-> None]

\* The arguments a get_taplist_summary call may carry.
ScrapeBreweries == {StarrHill.name, Champion.name, <<"G", "b">>}
ScrapeUrls == {StarrHill.taplist_url, Champion.taplist_url, "https://example/none"}

\* An exception e raised at a line, and str(e).
Exc(e, l, text) == [exc |-> e, line |-> l, str |-> text]
NoExc == Exc("none", 0, "")
Str(e) == e.str

\* main.py:210-215
SuccessResult(brewery, summary, url) ==
    [brewery |-> brewery, summary |-> summary, url |-> url, status |-> "success"]

\* main.py:219-225; the summary text names the brewery and points to the url
ErrorResult(brewery, url, e) ==
    [brewery |-> brewery,
     summary |-> [unable_to_fetch |-> brewery, check_website_at |-> url],
     url |-> url, status |-> "error", error |-> Str(e)]

\* Mutant: leaving the `async with` block stops the driver and nothing else.
ExitPlaywright_KeepsBrowser(browser) == browser

\* main.py:162, leaving the `async with async_playwright()` block: the driver
\* process is stopped and a browser it launched that is still open goes with it.
ExitPlaywright(browser) == IF browser = "open" THEN "closed" ELSE browser

\* main.py:158-160: the call of get_taplist_summary(brewery, url)
InitScrape ==
    /\ ChatIdle
    /\ cville_breweries \in CatalogFiles
    /\ lookup = NoLookup
    /\ \E brewery \in ScrapeBreweries, url \in ScrapeUrls :
          scrape = [pc |-> "called", brewery |-> brewery, url |-> url,
                    p |-> "none", browser |-> "none", e |-> NoExc,
                    out |-> NoFault]

\* An await inside the try (main.py:163-207) raises e: control goes to the
\* except clause at line 217.
Caught(e) == scrape' = [scrape EXCEPT !.pc = "except", !.e = e]

\* main.py:162: `async with async_playwright() as p` starts the driver; the
\* statement is outside the try, so a failure leaves the function as it is.
EnterPlaywright ==
    /\ scrape.pc = "called"
    /\ \/ scrape' = [scrape EXCEPT !.pc = "launch", !.p = "running"]
       \/ scrape' = [scrape EXCEPT !.pc = "raised",
                                   !.out = Raise("PlaywrightError", 162)]
    /\ UNCHANGED <<chat_vars, lookup>>

\* main.py:164
Launch ==
    /\ scrape.pc = "launch"
    /\ \/ scrape' = [scrape EXCEPT !.pc = "new_page", !.browser = "open"]
       \/ Caught(Exc("PlaywrightError", 164, "Executable doesn't exist"))
    /\ UNCHANGED <<chat_vars, lookup>>

\* main.py:165
NewPage ==
    /\ scrape.pc = "new_page"
    /\ \/ scrape' = [scrape EXCEPT !.pc = "goto"]
       \/ Caught(Exc("TargetClosedError", 165, "Target closed"))
    /\ UNCHANGED <<chat_vars, lookup>>

\* main.py:168
Goto ==
    /\ scrape.pc = "goto"
    /\ \/ scrape' = [scrape EXCEPT !.pc = "wait_for_timeout"]
       \/ Caught(Exc("TimeoutError", 168, "Timeout 20000ms exceeded"))
    /\ UNCHANGED <<chat_vars, lookup>>

\* main.py:171
WaitForTimeout ==
    /\ scrape.pc = "wait_for_timeout"
    /\ \/ scrape' = [scrape EXCEPT !.pc = "content"]
       \/ Caught(Exc("TargetClosedError", 171, "Target closed"))
    /\ UNCHANGED <<chat_vars, lookup>>

\* main.py:173
Content ==
    /\ scrape.pc = "content"
    /\ \/ scrape' = [scrape EXCEPT !.pc = "close"]
       \/ Caught(Exc("PlaywrightError", 173, "Unable to retrieve content"))
    /\ UNCHANGED <<chat_vars, lookup>>

\* main.py:174: browser.close(), reached only after page.content() returned
CloseBrowser ==
    /\ scrape.pc = "close"
    /\ \/ scrape' = [scrape EXCEPT !.pc = "parse", !.browser = "closed"]
       \/ \E left \in {"open", "closed"} :
             scrape' = [scrape EXCEPT !.pc = "except", !.browser = left,
                          !.e = Exc("PlaywrightError", 174, "Connection closed")]
    /\ UNCHANGED <<chat_vars, lookup>>

\* main.py:177-189
Parse ==
    /\ scrape.pc = "parse"
    /\ \/ scrape' = [scrape EXCEPT !.pc = "summarize"]
       \/ Caught(Exc("ParserRejectedMarkup", 177, "markup rejected"))
    /\ UNCHANGED <<chat_vars, lookup>>

\* main.py:193-215
Summarize ==
    /\ scrape.pc = "summarize"
    /\ \/ scrape' = [scrape EXCEPT !.pc = "exit",
             !.out = Return(SuccessResult(scrape.brewery, "on tap", scrape.url))]
       \/ Caught(Exc("APIError", 193, "Connection error."))
    /\ UNCHANGED <<chat_vars, lookup>>

\* main.py:217-225
Except ==
    /\ scrape.pc = "except"
    /\ scrape' = [scrape EXCEPT !.pc = "exit",
          !.out = Return(ErrorResult(scrape.brewery, scrape.url, scrape.e))]
    /\ UNCHANGED <<chat_vars, lookup>>

\* main.py:162: the return statement leaves the `async with` block, then the
\* function returns.
Exit ==
    /\ scrape.pc = "exit"
    /\ scrape' = [scrape EXCEPT !.pc = "returned", !.p = "stopped",
                                !.browser = ExitPlaywright(scrape.browser)]
    /\ UNCHANGED <<chat_vars, lookup>>

NextScrape ==
    \/ EnterPlaywright
    \/ Launch
    \/ NewPage
    \/ Goto
    \/ WaitForTimeout
    \/ Content
    \/ CloseBrowser
    \/ Parse
    \/ Summarize
    \/ Except
    \/ Exit

SpecScrape == InitScrape /\ [][NextScrape]_vars

\* ------------------------------------------- one handler call, end to end

\* The largest catalog file and the longest `results` list of a places
\* response that are tried.
MaxLocal == 16
MaxPlaces == 16

\* A catalog file of n records.
Catalog(n) ==
    [i \in 1..n |-> <<ThreeNotchd, StarrHill, Champion>>[((i - 1) % 3) + 1]]

PlaceNames == << <<"G", "b">>, <<"S", "t">>, <<"c", "S">> >>

\* The `results` of a places response: n places; the first one comes without
\* a name when `nameless`.
Results(n, nameless) ==
    [i \in 1..n |->
        IF nameless /\ i = 1
        THEN [place_id |-> i]
        ELSE [name |-> PlaceNames[((i - 1) % 3) + 1], place_id |-> i]]

\* What requests.get(...) and response.json() give: an exception, or the
\* decoded body with its status and results.
PlacesResponses ==
    {[raises |-> TRUE, status |-> None, results |-> <<>>],
     [raises |-> FALSE, status |-> "ZERO_RESULTS", results |-> <<>>],
     [raises |-> FALSE, status |-> "REQUEST_DENIED", results |-> <<>>],
     [raises |-> FALSE, status |-> "OK", results |-> Results(1, TRUE)]}
    \cup {[raises |-> FALSE, status |-> "OK", results |-> Results(n, FALSE)] :
            n \in 0..MaxPlaces}

\* os.getenv("GOOGLE_API_KEY")
ApiKeys == {None, "key"}

\* main.py:65-101, given the API key of the environment and the HTTP exchange
GooglePlacesBreweries(api_key, response) ==
    IF ~Truthy(api_key) THEN <<>>
    ELSE IF response.raises THEN <<>>
    ELSE IF response.status # "OK" THEN <<>>
    ELSE [i \in 1..Len(response.results) |->
            [name |-> Get(response.results[i], "name", NoneName),
             place_id |-> response.results[i].place_id,
             source |-> "google_places"]]

\* main.py:103-155
GooglePlacesRestaurants(api_key, meal, response) ==
    IF ~Truthy(api_key) THEN <<>>
    ELSE IF response.raises THEN <<>>
    ELSE IF response.status # "OK" THEN <<>>
    ELSE [i \in 1..Len(response.results) |->
            [name |-> Get(response.results[i], "name", NoneName),
             place_id |-> response.results[i].place_id,
             meal |-> IF Truthy(meal) THEN meal ELSE "general",
             source |-> "google_places"]]

\* The places connector did not deliver: no key, an exception, a status other
\* than OK.
ConnectorFails(api_key, response) ==
    ~Truthy(api_key) \/ response.raises \/ response.status # "OK"

NameFilters == {<<"s">>, <<"C">>, <<"h">>, <<>>}
Meals == {"lunch", "dinner"}
ModelLocation == <<10, 10>>

\* Optional keyword arguments the model may send: each key is there or not.
OptionalArguments(key, values) ==
    {EmptyDict} \cup {Put(EmptyDict, key, v) : v \in values}

\* The tool calls tried: every handler, with and without a location of the
\* model's own making, and a name that is not registered.
LookupCalls ==
    LET with_location(calls) ==
            calls \cup {[c EXCEPT !.arguments = Put(@, "location", ModelLocation)] :
                          c \in calls}
    IN  with_location(
            {[name |-> "get_breweries", arguments |-> a] :
                a \in OptionalArguments("name", NameFilters)}
            \cup {[name |-> "get_restaurants", arguments |-> a] :
                    a \in OptionalArguments("meal", Meals)}
            \cup {[name |-> "get_taplist_summary",
                   arguments |-> [brewery |-> StarrHill.name,
                                  url |-> StarrHill.taplist_url]],
                  [name |-> "get_weather", arguments |-> EmptyDict]})

\* One tool call reaches main.py:393 with the request's location, the catalog
\* file, the API key and the places exchange of its environment.
InitLookup ==
    /\ ChatIdle
    /\ scrape = NoScrape
    /\ \E tool_call \in LookupCalls,
          user_location \in {NoLocation} \cup UserLocations,
          n \in 0..MaxLocal,
          api_key \in ApiKeys,
          response \in PlacesResponses :
        /\ tool_call.name # "get_breweries" => n = 0
        /\ tool_call.name \notin {"get_breweries", "get_restaurants"}
           => api_key = None /\ response.raises
        /\ cville_breweries = Catalog(n)
        /\ lookup = [pc |-> "called", tool_call |-> tool_call,
                     user_location |-> user_location, api_key |-> api_key,
                     response |-> response, function_args |-> EmptyDict,
                     out |-> NoFault]

\* The outcomes of function_to_call(**function_args) at main.py:403-405.
HandlerOutcomes(function_name, function_args, file, api_key, response) ==
    CASE function_name = "get_breweries" ->
            { get_breweries(Get(function_args, "name", NoneName),
                            Get(function_args, "location", NoLocation), file,
                            GooglePlacesBreweries(api_key, response)) }
      [] function_name = "get_restaurants" ->
            { get_restaurants(Get(function_args, "meal", None),
                              Get(function_args, "location", NoLocation),
                              GooglePlacesRestaurants(api_key,
                                  Get(function_args, "meal", None), response)) }
      [] function_name = "get_taplist_summary" ->
            get_taplist_summary(function_args.brewery, function_args.url)

\* main.py:393-405: the arguments are completed and the handler is called.
CallHandler ==
    /\ lookup.pc = "called"
    /\ LET function_name == lookup.tool_call.name
           function_args == InjectLocation(function_name,
                                           lookup.tool_call.arguments,
                                           lookup.user_location)
       IN  IF function_name \notin available_functions
           THEN lookup' = [lookup EXCEPT !.pc = "returned",
                                         !.out = Raise("KeyError", 396)]
           ELSE IF ~Binds(function_name, function_args)
           THEN lookup' = [lookup EXCEPT !.pc = "returned",
                              !.function_args = function_args,
                              !.out = Raise("TypeError",
                                  IF IsCoroutineFunction(function_name)
                                  THEN 403 ELSE 405)]
           ELSE \E out \in HandlerOutcomes(function_name, function_args,
                               cville_breweries, lookup.api_key, lookup.response) :
                    lookup' = [lookup EXCEPT !.pc = "returned",
                                             !.function_args = function_args,
                                             !.out = out]
    /\ UNCHANGED <<chat_vars, scrape>>

NextLookup == CallHandler

SpecLookup == InitLookup /\ [][NextLookup]_vars

\* ------------------------------------------------- reading the state

NoEntity == [name |-> NoneName, url |-> None]

\* session.get("last_brewery") of the session stored under sid
LastBrewery(store, sid) ==
    IF sid \in DOMAIN store /\ "last_brewery" \in DOMAIN store[sid]
    THEN store[sid].last_brewery
    ELSE NoEntity

\* An entity that carries a tap-list URL.
CarriesUrl(b) == "taplist_url" \in DOMAIN b /\ Truthy(b.taplist_url)

EntityOf(b) == [name |-> b.name, url |-> b.taplist_url]

LastMessage(r) == messages[r][Len(messages[r])]

\* This step of run r appended the ToolResult turn of a call of function_name.
AppendedToolResult(r, function_name) ==
    /\ Len(messages'[r]) = Len(messages[r]) + 1
    /\ messages'[r][Len(messages'[r])].role = "tool"
    /\ messages'[r][Len(messages'[r])].name = function_name

\* The value that turn carries.
AppendedResult(r) == messages'[r][Len(messages'[r])].content.json

\* This step of run r handles the tool call its for loop is at.
HandlesToolCall(r) ==
    /\ pc[r] \in {"EXECUTING_TOOLS", "IN_PLACES_SEARCH", "AWAITING_TOOL"}
    /\ idx[r] <= Len(response_message[r].tool_calls)
    /\ \/ pc'[r] # pc[r]
       \/ idx'[r] # idx[r]

CurrentToolCall(r) == response_message[r].tool_calls[idx[r]]

\* ---------------------------------------------------------------- claims

\* C1: every run stops after a bounded number of rounds, whatever the model
\* answers: no run executes more rounds than a round cap.  The code states no
\* cap, so the cap is the largest the model's budget of tool calls can exceed.
RoundCap == MaxToolCalls - 1

C1_RoundCapStopsTheLoop == \A r \in Runs : rounds[r] <= RoundCap

\* C2: a tool call whose name is not in available_functions does not end the
\* run: its ToolResult turn, carrying the call's id, is appended and the loop
\* goes on to the next call.
C2_UnknownToolIsReported ==
    [][\A r \in Runs :
        (HandlesToolCall(r) /\ CurrentToolCall(r).name \notin available_functions)
        => /\ pc'[r] = "EXECUTING_TOOLS"
           /\ idx'[r] = idx[r] + 1
           /\ AppendedToolResult(r, CurrentToolCall(r).name)
           /\ messages'[r][Len(messages'[r])].tool_call_id = CurrentToolCall(r).id]_vars

\* C3: a registered handler that raises does not end the run: the step that
\* handles the call leaves the run in its loop with a ToolResult turn appended
\* for the call (or suspended at the handler's await, or inside the handler's
\* places search).
C3_HandlerFailureIsReported ==
    [][\A r \in Runs :
        (HandlesToolCall(r) /\ CurrentToolCall(r).name \in available_functions)
        => \/ pc'[r] \in {"AWAITING_TOOL", "IN_PLACES_SEARCH"}
           \/ /\ pc'[r] = "EXECUTING_TOOLS"
              /\ AppendedToolResult(r, CurrentToolCall(r).name)
              /\ messages'[r][Len(messages'[r])].tool_call_id = CurrentToolCall(r).id]_vars

\* C4: whenever a completion request is out after a round, the turns sent end
\* with that round's assistant turn followed by one ToolResult turn per tool
\* call, in the order of the calls, each with the id and name of its call; so
\* no request is out while a call of the round lacks its ToolResult.
C4_RoundsAreSequential ==
    \A r \in Runs :
        (pc[r] = "AWAITING_MODEL" /\ rounds[r] > 0)
        => LET tool_calls == response_message[r].tool_calls
               n == Len(tool_calls)
               m == Len(messages[r])
           IN  /\ m > n
               /\ messages[r][m - n].role = "assistant"
               /\ messages[r][m - n].tool_calls = tool_calls
               /\ \A i \in 1..n :
                    /\ messages[r][m - n + i].role = "tool"
                    /\ messages[r][m - n + i].tool_call_id = tool_calls[i].id
                    /\ messages[r][m - n + i].name = tool_calls[i].name

C4_Witness ==
    \E r \in Runs :
        /\ pc[r] = "AWAITING_MODEL"
        /\ rounds[r] > 0
        /\ Len(response_message[r].tool_calls) = 2
        /\ response_message[r].tool_calls[1].name # response_message[r].tool_calls[2].name

\* C5: a run whose first completion carries no tool calls has issued exactly
\* one completion request and invoked no handler when it ends, and its reply
\* is that completion's content.
C5_PlainCompletionIsTheReply ==
    [][\A r \in Runs :
        (pc[r] = "AWAITING_MODEL" /\ rounds[r] = 0 /\ pc'[r] = "DONE")
        => /\ completions[r] = 1
           /\ executed[r] = 0
           /\ response_message'[r].tool_calls = <<>>
           /\ response_message'[r].content \in Contents
           /\ reply'[r] = response_message'[r].content]_vars

C5_Witness ==
    \E r \in Runs :
        /\ pc[r] = "DONE"
        /\ requested = 0
        /\ reply[r] = "Try Starr Hill."

\* This step starts run r: the handler ran to its first completion request.
Starts(r) == pc[r] = "idle" /\ pc'[r] = "AWAITING_MODEL"

\* This step ends run r before it has started: the request is refused.
Refused(r) == pc[r] = "idle" /\ pc'[r] = "FAILED"

\* C6: session state is isolated per conversation: the last brewery a run
\* reads into its system turn was written by a run of the same conversation,
\* and a run never overwrites the last brewery of another conversation.
C6_SessionsAreIsolated ==
    [][\A r \in Runs :
        /\ (Starts(r) /\ messages'[r][1].session_context # <<>>)
           => writer[session_id'[r]] = request'[r].conversation_id
        /\ \A sid \in SessionIds :
              (pc[r] # "idle" /\ writer'[sid] # writer[sid]
                 /\ writer'[sid] = request[r].conversation_id)
              => writer[sid] = None]_vars

\* C7 (as claimed): after a get_breweries call whose result contains an
\* entity with a tap-list URL, the session's last brewery is the name and URL
\* of the first result, which carries such a URL.
C7_AnyResultWithUrlIsStored ==
    [][\A r \in Runs :
        (AppendedToolResult(r, "get_breweries")
           /\ \E i \in 1..Len(AppendedResult(r)) : CarriesUrl(AppendedResult(r)[i]))
        => /\ CarriesUrl(AppendedResult(r)[1])
           /\ LastBrewery(session_storage', session_id[r])
                = EntityOf(AppendedResult(r)[1])]_vars

\* C7 (amended): after a get_breweries call whose first result carries a
\* tap-list URL, the session's last brewery is the name and URL of that
\* first result.
C7_FirstResultWithUrlIsStored ==
    [][\A r \in Runs :
        (AppendedToolResult(r, "get_breweries")
           /\ AppendedResult(r) # <<>>
           /\ CarriesUrl(AppendedResult(r)[1]))
        => LastBrewery(session_storage', session_id[r])
             = EntityOf(AppendedResult(r)[1])]_vars

C7_Witness ==
    \E r \in Runs :
        /\ pc[r] = "EXECUTING_TOOLS"
        /\ LastMessage(r).role = "tool"
        /\ LastMessage(r).name = "get_breweries"
        /\ Len(LastMessage(r).content.json) = 1
        /\ CarriesUrl(LastMessage(r).content.json[1])
        /\ LastBrewery(session_storage, session_id[r])
             = EntityOf(LastMessage(r).content.json[1])
        /\ LastBrewery(session_storage, session_id[r]).name = Champion.name

\* C8: the last brewery of a session changes only in a step that appends the
\* ToolResult of a get_breweries call whose first result carries a tap-list
\* URL, and then to that result; once set it is never absent again.
C8_OnlyQualifyingResultsWrite ==
    [][\A sid \in SessionIds :
        LET old == LastBrewery(session_storage, sid)
            new == LastBrewery(session_storage', sid)
        IN  /\ new # old
               => \E r \in Runs :
                    /\ session_id[r] = sid
                    /\ AppendedToolResult(r, "get_breweries")
                    /\ AppendedResult(r) # <<>>
                    /\ CarriesUrl(AppendedResult(r)[1])
                    /\ new = EntityOf(AppendedResult(r)[1])
            /\ old # NoEntity => new # NoEntity]_vars

\* A last brewery is stored and a run has just appended the ToolResult of a
\* brewery lookup that returned entities none of which is stored.
C8_Witness ==
    \E r \in Runs :
        /\ pc[r] = "EXECUTING_TOOLS"
        /\ LastMessage(r).role = "tool"
        /\ LastMessage(r).name = "get_breweries"
        /\ LastMessage(r).content.json # <<>>
        /\ ~CarriesUrl(LastMessage(r).content.json[1])
        /\ LastBrewery(session_storage, session_id[r]) = EntityOf(StarrHill)

\* C9: the system turn a run starts with names the last brewery its session
\* holds at that moment, and carries no session context when the session holds
\* none; the run sends that same system turn with every completion request.
C9_SystemTurnNamesLastBrewery ==
    [][\A r \in Runs :
        /\ Starts(r)
           => /\ messages'[r][1].role = "system"
              /\ messages'[r][1].session_context =
                   IF LastBrewery(session_storage, session_id'[r]) # NoEntity
                   THEN LastBrewery(session_storage, session_id'[r]).name
                   ELSE <<>>
        /\ (messages[r] # <<>> /\ messages'[r] # <<>>)
           => messages'[r][1] = messages[r][1]]_vars

\* A run that started with a last brewery in its session has its second
\* completion request out.
C9_Witness ==
    \E r \in Runs :
        /\ pc[r] = "AWAITING_MODEL"
        /\ completions[r] = 2
        /\ messages[r][1].session_context = StarrHill.name

ClientErrors == {"RequestValidationError", "HTTPException400"}

\* C10 (as claimed): a request that is refused leaves the session store as it
\* was.
C10_RefusedRequestLeavesStore ==
    [][\A r \in Runs : Refused(r) => session_storage' = session_storage]_vars

\* C10 (amended): a request with an empty or absent message is refused with a
\* client error before any completion request or tool call, and leaves every
\* session's last brewery as it was (an empty session may have been created);
\* a run that starts has a message that is not empty.
C10_RefusedRequestLeavesLastBrewery ==
    [][\A r \in Runs :
        /\ Refused(r)
           => /\ fault'[r].exc \in ClientErrors
              /\ requested' = requested
              /\ \A q \in Runs : completions'[q] = completions[q]
                                 /\ executed'[q] = executed[q]
              /\ \A sid \in SessionIds :
                    LastBrewery(session_storage', sid) = LastBrewery(session_storage, sid)
        /\ Starts(r) => request'[r].message \notin {None, ""}]_vars

\* A request was refused for its empty message while a last brewery is stored.
C10_Witness ==
    \E r \in Runs :
        /\ pc[r] = "FAILED"
        /\ fault[r] = Raise("HTTPException400", 358)
        /\ LastBrewery(session_storage, "default_user") # NoEntity

\* The get_taplist_summary call is over: it returned, or it raised.
ScrapeOver == scrape.pc \in {"returned", "raised"}

\* The call failed at some step.
ScrapeFailed == scrape.out.exc # "none" \/ scrape.e # NoExc

\* C11: get_taplist_summary never raises outward: a call that failed at any
\* step returns a result with status error, a non-empty error detail and a
\* message that points to the url.
C11_NeverRaisesOutward ==
    (ScrapeOver /\ ScrapeFailed)
    => /\ scrape.pc = "returned"
       /\ scrape.out.exc = "none"
       /\ scrape.out.value.status = "error"
       /\ scrape.out.value.error # ""
       /\ scrape.out.value.summary.check_website_at = scrape.url

InCatalog(name, file) ==
    \E i \in 1..Len(load_cville_breweries(file)) :
        load_cville_breweries(file)[i].name = name

\* C13: the detail lookup marks its record with the data source: `scraped`
\* when the live extraction succeeded, `model_fallback` together with the
\* extraction error when it failed; for an entity that is not in the catalog
\* it returns a payload with a suggestion and no data_source.
C13_DetailLookupFallsBack ==
    scrape.pc = "returned"
    => LET record == scrape.out.value
       IN  IF InCatalog(scrape.brewery, cville_breweries)
           THEN /\ "data_source" \in DOMAIN record
                /\ scrape.e = NoExc => record.data_source = "scraped"
                /\ scrape.e # NoExc
                   => /\ record.data_source = "model_fallback"
                      /\ "error" \in DOMAIN record
                      /\ record.error = Str(scrape.e)
           ELSE /\ "suggestion" \in DOMAIN record
                /\ "data_source" \notin DOMAIN record

\* The handler call under observation was a call of function_name that
\* returned a value.
Returned(function_name) ==
    /\ lookup.pc = "returned"
    /\ lookup.tool_call.name = function_name
    /\ lookup.out.exc = "none"

\* The keyword arguments the handler received.
ReceivedName == Get(lookup.function_args, "name", NoneName)
ReceivedMeal == Get(lookup.function_args, "meal", None)
ReceivedLocation == Get(lookup.function_args, "location", NoLocation)

\* The entries of a list whose name contains the filter, whatever the case.
Matching(list, name) ==
    {i \in 1..Len(list) : Contains(Lower(name), Lower(list[i].name))}

\* C14: a get_breweries call with a name filter returns only entities whose
\* name contains the filter case-insensitively, and as many of them as the
\* local catalog and the external places together hold, up to the limit: the
\* filter is applied to the combined list before the list is cut.
C14_NameFilterBeforeTruncation ==
    (Returned("get_breweries") /\ TruthyName(ReceivedName))
    => LET result == lookup.out.value
           combined ==
               cville_breweries \o
               (IF ReceivedLocation # NoLocation
                THEN GooglePlacesBreweries(lookup.api_key, lookup.response)
                ELSE <<>>)
           matches == Cardinality(Matching(combined, ReceivedName))
       IN  /\ \A i \in 1..Len(result) :
                Contains(Lower(ReceivedName), Lower(result[i].name))
           /\ Len(result) = IF matches <= ResultLimit THEN matches ELSE ResultLimit

\* A filter in lower case, a catalog as long as the limit, and a result that
\* holds a local entity and an external place, both with the letter in upper
\* case.
C14_Witness ==
    /\ Returned("get_breweries")
    /\ ReceivedName = <<"s">>
    /\ Len(cville_breweries) >= ResultLimit
    /\ \E i, j \in 1..Len(lookup.out.value) :
          /\ lookup.out.value[i].name = StarrHill.name
          /\ Get(lookup.out.value[j], "source", None) = "google_places"

\* C15: get_breweries never returns more than 15 entries, whatever the size
\* of the catalog and of the places response; neither does get_restaurants
\* called with a location.
C15_AtMostFifteen ==
    /\ Returned("get_breweries") => Len(lookup.out.value) <= 15
    /\ (Returned("get_restaurants") /\ ReceivedLocation # NoLocation)
       => Len(lookup.out.value) <= 15

\* The places response held more restaurants than the limit; the limit came
\* back.
C15_Witness ==
    /\ Returned("get_restaurants")
    /\ ReceivedLocation # NoLocation
    /\ Truthy(lookup.api_key)
    /\ Len(lookup.response.results) > 15
    /\ Len(lookup.out.value) = 15

\* An entry of the local catalog, as get_breweries returns it (with the
\* distance it adds when a location is given).
IsLocalEntity(b, file) ==
    \E i \in 1..Len(load_cville_breweries(file)) :
        /\ load_cville_breweries(file)[i].name = b.name
        /\ Get(load_cville_breweries(file)[i], "taplist_url", None)
             = Get(b, "taplist_url", None)
        /\ "source" \notin DOMAIN b

\* An entry that can belong to a curated restaurant set: a restaurant, which
\* neither the places connector delivered nor is an error record.
IsCuratedRestaurant(entry) ==
    Get(entry, "source", None) \notin {"google_places", "error"}

\* The call under observation went to the places connector, which failed.
ConnectorFailed ==
    /\ lookup.pc = "returned"
    /\ lookup.tool_call.name \in {"get_breweries", "get_restaurants"}
    /\ ReceivedLocation # NoLocation
    /\ ConnectorFails(lookup.api_key, lookup.response)

\* C16: when the places connector has no API key, raises, or reports a status
\* other than OK, neither handler raises: get_breweries returns entities of
\* the local catalog only, all of those its filter admits up to the limit,
\* and get_restaurants returns the curated restaurant set only.
C16_ConnectorFailureFallsBack ==
    ConnectorFailed
    => /\ lookup.out.exc = "none"
       /\ lookup.tool_call.name = "get_breweries"
          => /\ \A i \in 1..Len(lookup.out.value) :
                   IsLocalEntity(lookup.out.value[i], cville_breweries)
             /\ (~TruthyName(ReceivedName) /\ Len(cville_breweries) <= ResultLimit)
                => Len(lookup.out.value) = Len(cville_breweries)
       /\ lookup.tool_call.name = "get_restaurants"
          => /\ lookup.out.value # <<>>
             /\ \A i \in 1..Len(lookup.out.value) :
                   IsCuratedRestaurant(lookup.out.value[i])

\* C17: get_restaurants called without a location returns curated
\* restaurants whose meal tag is the one asked for, and no error record.
C17_CuratedSetWithoutLocation ==
    (Returned("get_restaurants") /\ ReceivedLocation = NoLocation)
    => /\ lookup.out.value # <<>>
       /\ \A i \in 1..Len(lookup.out.value) :
             /\ IsCuratedRestaurant(lookup.out.value[i])
             /\ Truthy(ReceivedMeal) => lookup.out.value[i].meal = ReceivedMeal

\* C18: the loop adds the request's location to the arguments of
\* get_breweries and get_restaurants only, and only when the request has one.
\* get_taplist_summary receives the model's arguments as they are; so does
\* every handler when the request has no location; and when it has one, the
\* location-aware handler receives exactly that location, whatever location
\* the model sent, with its other arguments as the model sent them.
C18_LocationOnlyForLocationAwareHandlers ==
    (lookup.pc = "returned" /\ lookup.tool_call.name \in available_functions)
    => LET function_name == lookup.tool_call.name
           sent == lookup.tool_call.arguments
           received == lookup.function_args
       IN  /\ function_name = "get_taplist_summary" => received = sent
           /\ lookup.user_location = NoLocation => received = sent
           /\ (function_name \in {"get_breweries", "get_restaurants"}
                 /\ lookup.user_location # NoLocation)
              => /\ DOMAIN received = DOMAIN sent \cup {"location"}
                 /\ received.location = lookup.user_location
                 /\ \A k \in DOMAIN sent \ {"location"} : received[k] = sent[k]

\* The model sent a location of its own with a brewery lookup, the request
\* carried another: the handler worked with the request's.
C18_Witness ==
    /\ Returned("get_breweries")
    /\ "location" \in DOMAIN lookup.tool_call.arguments
    /\ lookup.user_location # NoLocation
    /\ lookup.tool_call.arguments.location # lookup.user_location
    /\ ReceivedLocation = lookup.user_location
    /\ lookup.out.value # <<>>
    /\ lookup.out.value[1].distance = 0

\* C19: a places search does not block other conversations: while a run is
\* inside the places search of get_breweries or get_restaurants, a run of
\* another conversation whose completion request is out can take its next
\* step (receive the completion and reply, or go on to its tools), and one
\* whose get_taplist_summary is awaited can take that result.
C19_PlacesSearchDoesNotBlock ==
    \A r, q \in Runs :
        (/\ pc[r] = "IN_PLACES_SEARCH"
         /\ q # r
         /\ request[q].conversation_id \notin {None, request[r].conversation_id})
        => /\ pc[q] = "AWAITING_MODEL" => ENABLED CompletionReplies(q)
           /\ pc[q] = "AWAITING_TOOL" => ENABLED ToolReturns(q)

\* The last message of run r is the ToolResult of a brewery lookup whose first
\* entity carries a tap-list URL.
JustWrote(r) ==
    /\ messages[r] # <<>>
    /\ LastMessage(r).role = "tool"
    /\ LastMessage(r).name = "get_breweries"
    /\ LastMessage(r).content.json # <<>>
    /\ CarriesUrl(LastMessage(r).content.json[1])

\* C20: whatever the interleaving of the runs, the last brewery of a session
\* is the name and the URL of one and the same catalog entity, written
\* together; and as long as the run that wrote it has not given up the event
\* loop, the store holds what that run wrote.
C20_LastBreweryIsWrittenWhole ==
    /\ \A sid \in SessionIds :
          \/ LastBrewery(session_storage, sid) = NoEntity
          \/ \E i \in 1..Len(cville_breweries) :
                /\ CarriesUrl(cville_breweries[i])
                /\ LastBrewery(session_storage, sid) = EntityOf(cville_breweries[i])
    /\ \A r \in Runs :
          (pc[r] = "EXECUTING_TOOLS" /\ loop = r /\ JustWrote(r))
          => LastBrewery(session_storage, session_id[r])
               = EntityOf(LastMessage(r).content.json[1])

\* Two runs of the same conversation are under way; one wrote Starr Hill and
\* waits for its next completion, the other has just written Champion over it.
C20_Witness ==
    \E r, q \in Runs :
        /\ r # q
        /\ request[r].conversation_id = request[q].conversation_id
        /\ pc[q] = "AWAITING_MODEL"
        /\ JustWrote(q)
        /\ LastMessage(q).content.json[1].name = StarrHill.name
        /\ pc[r] = "EXECUTING_TOOLS"
        /\ JustWrote(r)
        /\ LastBrewery(session_storage, session_id[r]) = EntityOf(Champion)

====
